---------------------------- MODULE Spec2Model ----------------------------
(***************************************************************************)
(* Event Radar scraper (src/scrape.py): the classifier (relevant, tag_for), *)
(* the three source adapters (scrape_localist, scrape_html, scrape_meetup)  *)
(* and main's collect / dedup / filter / sort / emit pipeline.              *)
(*                                                                         *)
(* Python strings are TLA+ strings, i.e. sequences of characters: Len,      *)
(* SubSeq, Head, Tail and \o are the operators of Sequences.                *)
(***************************************************************************)
EXTENDS Naturals, Integers, Sequences, FiniteSets, TLC

VARIABLES
    pc,          \* main: the phase the run is at
    all_events,  \* main: the working collection            (scrape.py:316)
    deduped,     \* main: result of the dedup pass          (scrape.py:342)
    future,      \* main: filtered and sorted events        (scrape.py:347)
    today,       \* main: datetime.now() as YYYY-MM-DD      (scrape.py:346)
    output,      \* main: the snapshot handed to json.dumps (scrape.py:356)
    nfailed,     \* number of adapter calls whose fetch raised
    invoked,     \* the adapter calls made so far, in order
    call,        \* adapter call: the adapter, its arguments and the response
    out,         \* adapter call: the list the adapter returned
    cpc,         \* classifier call: "input" or "classified"
    title,       \* classifier input
    desc,        \* classifier input
    rel,         \* relevant(title, desc)
    tag          \* tag_for(title, desc)

vars == <<pc, all_events, deduped, future, today, output, nfailed, invoked,
          call, out, cpc, title, desc, rel, tag>>

mainVars == <<pc, all_events, deduped, future, today, output, nfailed, invoked>>
callVars == <<call, out>>
classVars == <<cpc, title, desc, rel, tag>>

None == "<None>"
NoOutput == [event_count |-> 0, events |-> <<>>]

-----------------------------------------------------------------------------
(* Characters and strings                                                  *)

Uppers == "ABCDEFGHIJKLMNOPQRSTUVWXYZ"
Lowers == "abcdefghijklmnopqrstuvwxyz"
Digits == "0123456789"

\* The printable ASCII characters used by the model, in code-point order.
Ascii == " !#$%&'()*+,-./0123456789:;<=>?@ABCDEFGHIJKLMNOPQRSTUVWXYZ[]^_abcdefghijklmnopqrstuvwxyz{|}~"

Range(f) == {f[i] : i \in DOMAIN f}
Min(S) == CHOOSE x \in S : \A y \in S : x <= y
Max(S) == CHOOSE x \in S : \A y \in S : x >= y

\* The element of a one-element set. One({F(v) : v \in {e}}) is F(e) with e
\* evaluated once, whatever the number of times F uses it.
One(S) == CHOOSE x \in S : TRUE

Chars(s) == {SubSeq(s, i, i) : i \in 1..Len(s)}

IndexIn(s, c) == CHOOSE i \in 1..Len(s) : SubSeq(s, i, i) = c

\* Rank of a character in code-point order (what str comparison compares).
Ord == [c \in Chars(Ascii) |-> IndexIn(Ascii, c)]

UpperSet == Chars(Uppers)

LowerChar(c) ==
    IF c \in UpperSet
    THEN LET i == IndexIn(Uppers, c) IN SubSeq(Lowers, i, i)
    ELSE c

\* str.lower(): every character lowered, the string taken half by half
RECURSIVE Lower(_)
Lower(s) ==
    One({IF Len(v) <= 1 THEN LowerChar(v)
         ELSE Lower(SubSeq(v, 1, Len(v) \div 2))
                  \o Lower(SubSeq(v, (Len(v) \div 2) + 1, Len(v))) : v \in {s}})

\* s[:n]
Prefix(s, n) == SubSeq(s, 1, IF Len(s) < n THEN Len(s) ELSE n)

\* s.startswith(p)
StartsWith(s, p) == Len(p) <= Len(s) /\ SubSeq(s, 1, Len(p)) = p

\* k in t  (substring test)
Contains(t, k) ==
    \E i \in 1..(Len(t) - Len(k) + 1) : SubSeq(t, i, i + Len(k) - 1) = k

\* a < b on str: the first position where a and b differ decides by code
\* point; when there is none the shorter string is the smaller.
StrLess(a, b) ==
    \E x \in {a}, y \in {b} :
        LET differ == {i \in 1..Min({Len(x), Len(y)}) : SubSeq(x, i, i) # SubSeq(y, i, i)}
        IN  IF differ = {} THEN Len(x) < Len(y)
            ELSE Ord[SubSeq(x, Min(differ), Min(differ))]
                     < Ord[SubSeq(y, Min(differ), Min(differ))]

StrGeq(a, b) == ~StrLess(a, b)


\* s.strip() and the white space of \s
IsSpace(c) == c = " "

\* Positions of s holding something else than white space
Inked(s) == {i \in 1..Len(s) : ~IsSpace(SubSeq(s, i, i))}

LStrip(s) ==
    \* s from its first character that is not white space
    IF Inked(s) = {} THEN "" ELSE SubSeq(s, Min(Inked(s)), Len(s))

RStrip(s) ==
    \* s up to its last character that is not white space
    IF Inked(s) = {} THEN "" ELSE SubSeq(s, 1, Max(Inked(s)))

Strip(s) == LStrip(RStrip(s))

\* s.replace(a, b) for a one-character a, the string taken half by half
RECURSIVE Replace(_, _, _)
Replace(s, a, b) ==
    One({IF Len(v) <= 1 THEN (IF v = a THEN b ELSE v)
         ELSE Replace(SubSeq(v, 1, Len(v) \div 2), a, b)
                  \o Replace(SubSeq(v, (Len(v) \div 2) + 1, Len(v)), a, b) :
         v \in {s}})

\* The k-th smallest element of a set of numbers
Kth(S, k) == One({CHOOSE i \in T : Cardinality({j \in T : j <= i}) = k : T \in {S}})

\* The list whose elements are f[1], ..., f[n], each one evaluated
List(f, n) == SubSeq(f, 1, n)

\* The elements of evs at the positions of the set at, in order
Pick(evs, at) ==
    One({List([p \in 1..Cardinality(A) |-> v[Kth(A, p)]], Cardinality(A)) :
         v \in {evs}, A \in {at}})

\* s.split(sep) for a one-character sep: the pieces between the separators,
\* the start and the end of s.
Split(s, sep) ==
    LET at == {i \in 1..Len(s) : SubSeq(s, i, i) = sep}
        n == Cardinality(at)
    IN  List([k \in 1..(n + 1) |->
                 SubSeq(s, IF k = 1 THEN 1 ELSE Kth(at, k - 1) + 1,
                           IF k = n + 1 THEN Len(s) ELSE Kth(at, k) - 1)], n + 1)

\* sep.join(parts)
RECURSIVE Join(_, _)
Join(parts, sep) ==
    IF Len(parts) = 0 THEN ""
    ELSE IF Len(parts) = 1 THEN parts[1]
    ELSE parts[1] \o sep \o Join(Tail(parts), sep)

\* Position of the first c in s at or after i, 0 when there is none.
Find(s, c, i) ==
    LET at == {j \in i..Len(s) : SubSeq(s, j, j) = c}
    IN  IF at = {} THEN 0 ELSE Min(at)

DigitSet == Chars(Digits)
IsDigits(s) == s # "" /\ \A i \in 1..Len(s) : SubSeq(s, i, i) \in DigitSet
DigitVal(c) == IndexIn(Digits, c) - 1
DigitStr(d) == SubSeq(Digits, d + 1, d + 1)

\* int(s) for a string of digits
RECURSIVE ToNat(_)
ToNat(s) ==
    IF s = "" THEN 0
    ELSE 10 * ToNat(SubSeq(s, 1, Len(s) - 1)) + DigitVal(SubSeq(s, Len(s), Len(s)))

\* str(n)
RECURSIVE NatStr(_)
NatStr(n) == IF n < 10 THEN DigitStr(n) ELSE NatStr(n \div 10) \o DigitStr(n % 10)

Pad2(n) == DigitStr((n \div 10) % 10) \o DigitStr(n % 10)
Pad4(n) == Pad2(n \div 100) \o Pad2(n % 100)

\* re.sub(r"<[^>]+>", " ", s): a tag is "<", one or more characters other
\* than ">", and the next ">".
\* The leftmost match starts at the first "<" whose next ">" is not
\* adjacent to it; the text after the match is treated the same way.
RECURSIVE StripTags(_)
StripTags(s) ==
    One({LET opens == {i \in 1..Len(v) : /\ SubSeq(v, i, i) = "<"
                                          /\ Find(v, ">", i + 1) > i + 1}
         IN  IF opens = {} THEN v
             ELSE SubSeq(v, 1, Min(opens) - 1) \o " "
                      \o StripTags(SubSeq(v, Find(v, ">", Min(opens) + 1) + 1, Len(v))) :
         v \in {s}})

\* Characters lo..hi of s with every run of white space turned into one
\* blank (the blank stands at the first character of the run), the range
\* taken half by half.
RECURSIVE CollapseRange(_, _, _)
CollapseRange(s, lo, hi) ==
    One({IF a > b THEN ""
         ELSE IF a = b
              THEN (IF ~IsSpace(SubSeq(s, a, a)) THEN SubSeq(s, a, a)
                    ELSE IF a > 1 /\ IsSpace(SubSeq(s, a - 1, a - 1)) THEN ""
                    ELSE " ")
         ELSE CollapseRange(s, a, (a + b) \div 2)
                  \o CollapseRange(s, ((a + b) \div 2) + 1, b) :
         a \in {lo}, b \in {hi}})

\* re.sub(r"\s+", " ", s)
Collapse(s) == One({CollapseRange(v, 1, Len(v)) : v \in {s}})

CleanLen == 400

\* clean(s); None and "" are both falsy
clean(s) ==
    IF s = None \/ s = "" THEN ""
    ELSE Prefix(Strip(Collapse(StripTags(s))), CleanLen)

-----------------------------------------------------------------------------
(* Relevance filtering and tagging                                         *)

INCLUDE_KW == <<
    "robot", "drone", "uav", "uas", "autonomous", "automation",
    "manufactur", "hardware", "3d print", "additive", "cnc", "fabricat",
    "startup", "entrepreneur", "venture", "pitch", "demo day", "accelerat",
    "ai ", "artificial intelligence", "machine learning", "deep learning",
    "computer vision", "neural", "llm", "generative ai",
    "engineer", "mechan", "sensor", "embedd",
    "networking", "mixer", "career fair", "hackathon",
    "innovation", "incubator", "maker", "prototype",
    "aerospace", "defense", "space", "seminar", "colloqui" >>

EXCLUDE_KW == <<
    "basketball", "hockey", "football", "baseball", "softball", "lacrosse",
    "yoga", "meditation", "worship", "prayer", " mass ",
    "alumni reunion", "commencement", "graduation ceremony",
    "parking", "dining", "meal plan", "intramural" >>

TAG_RULES == <<
    [kws |-> <<"robot", "robotics summit", "massrobotics", "humanoid">>,
     tag |-> "robotics"],
    [kws |-> <<"drone", "uav", "uas", "unmanned", "part 107", "fpv">>,
     tag |-> "drones"],
    [kws |-> <<"manufactur", "3d print", "additive", "cnc", "hardware meetup",
               "fabricat", "rapid +", "aerodef", "device">>,
     tag |-> "manufacturing"],
    [kws |-> <<"ai ", "artificial intelligence", "machine learning",
               "deep learning", "llm", "neural", "computer vision",
               "generative">>,
     tag |-> "ai"],
    [kws |-> <<"startup", "entrepreneur", "venture", "pitch", "accelerat",
               "incubator", "demo day", "$100k", "founder">>,
     tag |-> "startup"],
    [kws |-> <<"networking", "mixer", "career fair", "cross university",
               "connect", "social">>,
     tag |-> "networking"] >>

\* any(k in t for k in kws)
AnyIn(kws, t) == \E i \in 1..Len(kws) : Contains(t, kws[i])

\* t = (title + " " + desc).lower()
ClassText(ti, de) == Lower(ti \o " " \o de)

\* The for loop of tag_for from rule i on.
RECURSIVE TagFrom(_, _)
TagFrom(i, t) ==
    IF i > Len(TAG_RULES) THEN "talk"
    ELSE IF AnyIn(TAG_RULES[i].kws, t) THEN TAG_RULES[i].tag
    ELSE TagFrom(i + 1, t)

\* A rule-order slip: the last matching rule wins.
RECURSIVE TagFromLast(_, _)
TagFromLast(i, t) ==
    IF i < 1 THEN "talk"
    ELSE IF AnyIn(TAG_RULES[i].kws, t) THEN TAG_RULES[i].tag
    ELSE TagFromLast(i - 1, t)

tag_for_last(ti, de) ==
    One({TagFromLast(Len(TAG_RULES), t) : t \in {ClassText(ti, de)}})

tag_for(ti, de) == One({TagFrom(1, t) : t \in {ClassText(ti, de)}})

\* A precedence slip: inclusion decides alone, the veto is lost.
relevant_noveto(ti, de) == \E t \in {ClassText(ti, de)} : AnyIn(INCLUDE_KW, t)

relevant(ti, de) ==
    \E t \in {ClassText(ti, de)} :
        IF AnyIn(EXCLUDE_KW, t) THEN FALSE ELSE AnyIn(INCLUDE_KW, t)

-----------------------------------------------------------------------------
(* Dates: datetime.fromisoformat, datetime.strptime, strftime               *)
(* The parsers are modelled on the shapes the inputs of this model take;    *)
(* years are four digits and at least 1000, where %Y prints four digits.    *)

NoDate == [ok |-> FALSE, y |-> 0, m |-> 0, d |-> 0, hour |-> 0, minute |-> 0]

IsLeap(y) == (y % 4 = 0 /\ y % 100 # 0) \/ y % 400 = 0

DaysIn(y, m) ==
    IF m \in {4, 6, 9, 11} THEN 30
    ELSE IF m = 2 THEN (IF IsLeap(y) THEN 29 ELSE 28)
    ELSE 31

\* A field of lo..hi digits whose value is in from..to.
NumField(f, lo, hi, from, to) ==
    /\ IsDigits(f)
    /\ Len(f) >= lo /\ Len(f) <= hi
    /\ ToNat(f) >= from /\ ToNat(f) <= to

\* "HH[:MM[:SS]]" with two-digit fields
IsoTimeOk(t) ==
    LET f == Split(t, ":")
    IN  /\ Len(f) \in {1, 2, 3}
        /\ NumField(f[1], 2, 2, 0, 23)
        /\ Len(f) >= 2 => NumField(f[2], 2, 2, 0, 59)
        /\ Len(f) >= 3 => NumField(f[3], 2, 2, 0, 59)

\* "+HH:MM" / "-HH:MM"
IsoOffsetOk(z) ==
    /\ Len(z) = 6
    /\ SubSeq(z, 1, 1) \in {"+", "-"}
    /\ NumField(SubSeq(z, 2, 3), 2, 2, 0, 23)
    /\ SubSeq(z, 4, 4) = ":"
    /\ NumField(SubSeq(z, 5, 6), 2, 2, 0, 59)

\* Position of the first "+" or "-" of s, 0 when there is none.
SignPos(s) ==
    LET p == Find(s, "+", 1)
        q == Find(s, "-", 1)
    IN  IF p = 0 THEN q ELSE IF q = 0 THEN p ELSE IF p < q THEN p ELSE q

\* datetime.fromisoformat(s): YYYY-MM-DD, optionally one separator character,
\* HH[:MM[:SS]] and an optional +HH:MM offset. ok = FALSE is ValueError.
fromisoformat(s) ==
    LET ys == SubSeq(s, 1, 4)
        ms == SubSeq(s, 6, 7)
        ds == SubSeq(s, 9, 10)
        dateOk == /\ Len(s) >= 10
                  /\ NumField(ys, 4, 4, 1, 9999)
                  /\ SubSeq(s, 5, 5) = "-"
                  /\ NumField(ms, 2, 2, 1, 12)
                  /\ SubSeq(s, 8, 8) = "-"
                  /\ NumField(ds, 2, 2, 1, DaysIn(ToNat(ys), ToNat(ms)))
        rest == SubSeq(s, 12, Len(s))
        sp == SignPos(rest)
        t == IF sp = 0 THEN rest ELSE SubSeq(rest, 1, sp - 1)
        z == IF sp = 0 THEN "" ELSE SubSeq(rest, sp, Len(rest))
        tf == Split(t, ":")
    IN  IF ~dateOk THEN NoDate
        ELSE IF Len(s) = 10
             THEN [ok |-> TRUE, y |-> ToNat(ys), m |-> ToNat(ms), d |-> ToNat(ds),
                   hour |-> 0, minute |-> 0]
        ELSE IF Len(s) >= 13 /\ IsoTimeOk(t) /\ (z = "" \/ IsoOffsetOk(z))
             THEN [ok |-> TRUE, y |-> ToNat(ys), m |-> ToNat(ms), d |-> ToNat(ds),
                   hour |-> ToNat(tf[1]),
                   minute |-> IF Len(tf) >= 2 THEN ToNat(tf[2]) ELSE 0]
        ELSE NoDate

\* dt.strftime("%Y-%m-%d")
strftime_date(dt) == Pad4(dt.y) \o "-" \o Pad2(dt.m) \o "-" \o Pad2(dt.d)

\* dt.strftime("%-I:%M %p")
strftime_time(dt) ==
    NatStr(IF dt.hour % 12 = 0 THEN 12 ELSE dt.hour % 12) \o ":" \o Pad2(dt.minute)
        \o " " \o (IF dt.hour < 12 THEN "AM" ELSE "PM")

\* strptime's "%Y-%m-%d": a four-digit year, month and day of one or two digits
ParseYmd(s) ==
    LET f == Split(s, "-")
    IN  IF /\ Len(f) = 3
           /\ NumField(f[1], 4, 4, 1, 9999)
           /\ NumField(f[2], 1, 2, 1, 12)
           /\ NumField(f[3], 1, 2, 1, DaysIn(ToNat(f[1]), ToNat(f[2])))
        THEN [ok |-> TRUE, y |-> ToNat(f[1]), m |-> ToNat(f[2]), d |-> ToNat(f[3]),
              hour |-> 0, minute |-> 0]
        ELSE NoDate

\* strptime's "%z": Z, +HHMM or +HH:MM
ZoneOk(z) ==
    \/ z = "Z"
    \/ /\ Len(z) = 5
       /\ SubSeq(z, 1, 1) \in {"+", "-"}
       /\ NumField(SubSeq(z, 2, 3), 2, 2, 0, 23)
       /\ NumField(SubSeq(z, 4, 5), 2, 2, 0, 59)
    \/ IsoOffsetOk(z)

\* strptime(s, "%Y-%m-%dT%H:%M:%S%z")
ParseStamp(s) ==
    LET tp == Find(s, "T", 1)
        day == ParseYmd(SubSeq(s, 1, tp - 1))
        rest == SubSeq(s, tp + 1, Len(s))
        zp == LET sp == SignPos(rest) IN IF sp = 0 THEN Find(rest, "Z", 1) ELSE sp
        f == Split(SubSeq(rest, 1, zp - 1), ":")
    IN  IF /\ tp > 0 /\ day.ok /\ zp > 0
           /\ Len(f) = 3
           /\ NumField(f[1], 1, 2, 0, 23)
           /\ NumField(f[2], 1, 2, 0, 59)
           /\ NumField(f[3], 1, 2, 0, 61)
           /\ ZoneOk(SubSeq(rest, zp, Len(rest)))
        THEN day
        ELSE NoDate

MONTHS == <<"january", "february", "march", "april", "may", "june", "july",
            "august", "september", "october", "november", "december">>

\* Month number of a %B name (full) or %b name (first three letters), 0 if none.
MonthOf(name, full) ==
    LET n == Lower(name)
        hits == {i \in 1..12 : n = (IF full THEN MONTHS[i] ELSE Prefix(MONTHS[i], 3))}
    IN  IF hits = {} THEN 0 ELSE Min(hits)

\* strptime(s, "%B %d, %Y") and strptime(s, "%b %d, %Y"); a blank of the
\* format matches any run of blanks.
ParseMonthDay(s, full) ==
    LET f == Split(Collapse(s), " ")
        m == MonthOf(f[1], full)
        dd == SubSeq(f[2], 1, Len(f[2]) - 1)
    IN  IF /\ Len(f) = 3
           /\ m > 0
           /\ Len(f[2]) >= 2 /\ SubSeq(f[2], Len(f[2]), Len(f[2])) = ","
           /\ NumField(f[3], 4, 4, 1, 9999)
           /\ NumField(dd, 1, 2, 1, DaysIn(ToNat(f[3]), m))
        THEN [ok |-> TRUE, y |-> ToNat(f[3]), m |-> m, d |-> ToNat(dd),
              hour |-> 0, minute |-> 0]
        ELSE NoDate

HtmlStampLen == 25

\* The format loop of scrape_html: "" when no format parses raw.strip()[:25].
html_date(raw) ==
    LET r == Prefix(Strip(raw), HtmlStampLen)
    IN  IF ParseStamp(r).ok THEN strftime_date(ParseStamp(r))
        ELSE IF ParseYmd(r).ok THEN strftime_date(ParseYmd(r))
        ELSE IF ParseMonthDay(r, TRUE).ok THEN strftime_date(ParseMonthDay(r, TRUE))
        ELSE IF ParseMonthDay(r, FALSE).ok THEN strftime_date(ParseMonthDay(r, FALSE))
        ELSE ""

-----------------------------------------------------------------------------
(* Source adapters. A response is [status |-> "error"] when requests.get or *)
(* raise_for_status raises, else [status |-> "ok"] with the items or cards  *)
(* found in the body. A dict or an element is a record holding the keys it  *)
(* has; None is Python's None.                                              *)

Has(d, k) == k \in DOMAIN d

\* d.get(k, default)
Get(d, k, default) == IF k \in DOMAIN d THEN d[k] ELSE default

\* seq[:n]
Take(seq, n) == SubSeq(seq, 1, IF Len(seq) < n THEN Len(seq) ELSE n)

DescLen == 300
DateLen == 10

Skip == [kind |-> "skip"]
Raise == [kind |-> "raise"]
Emit(e) == [kind |-> "emit", ev |-> e]

\* The body of the for loop of scrape_localist for one item: skipped
\* (continue), emitted (out.append), or an exception leaving the loop.
LocalistItem(name, item) ==
    LET ev == Get(item, "event", item)
        ti == Get(ev, "title", "")
        ds == Get(ev, "first_date", Get(ev, "date", ""))
    IN  One({
        IF ti = None THEN Raise
        ELSE IF ~relevant(ti, de) THEN Skip
        ELSE IF ds = "" \/ ds = None THEN Skip
        ELSE Emit([date |-> IF dt.ok THEN strftime_date(dt) ELSE Prefix(ds, DateLen),
                   title |-> ti,
                   source |-> name,
                   tag |-> tag_for(ti, de),
                   desc |-> Prefix(de, DescLen),
                   link |-> Get(ev, "localist_url", Get(ev, "url", "")),
                   time |-> IF dt.ok /\ dt.hour # 0 THEN strftime_time(dt) ELSE "TBD",
                   location |-> Get(ev, "location_name", "")]) :
        de \in {clean(Get(ev, "description_text", Get(ev, "description", "")))},
        dt \in {fromisoformat(Replace(ds, "Z", "+00:00"))}})

RECURSIVE LocalistLoop(_, _, _, _)
LocalistLoop(name, items, i, acc) ==
    IF i > Len(items) THEN acc
    ELSE One({IF r.kind = "raise" THEN acc
              ELSE LocalistLoop(name, items, i + 1,
                                IF r.kind = "emit" THEN Append(acc, r.ev) ELSE acc) :
              r \in {LocalistItem(name, items[i])}})

\* Without the try/except: a failed fetch leaves scrape_localist as an exception.
scrape_localist_uncaught(name, url, resp) ==
    [raised |-> resp.status # "ok",
     out |-> IF resp.status = "ok" THEN LocalistLoop(name, resp.events, 1, <<>>)
             ELSE <<>>]

\* scrape_localist(name, url) on the response resp: what it returns, and
\* whether an exception leaves it (never: "except Exception" returns out).
scrape_localist(name, url, resp) ==
    [raised |-> FALSE,
     out |-> IF resp.status = "ok" THEN LocalistLoop(name, resp.events, 1, <<>>)
             ELSE <<>>]

TRUSTED_TAGS == {"robotics", "manufacturing"}
MinTitleLen == 5
OriginParts == 3

\* The body of the for loop of scrape_html for one card. ti, de, href and te
\* are what the selectors find in the card (absent when nothing matches).
HtmlCard(url, source, default_tag, card) ==
    LET href == Get(card, "href", url)
        link == IF StartsWith(href, "/")
                THEN Join(Take(Split(url, "/"), OriginParts), "/") \o href
                ELSE href
    IN  One({
        IF ~Has(card, "ti") THEN Skip
        ELSE IF ti = "" \/ Len(ti) < MinTitleLen THEN Skip
        ELSE IF relevant(ti, de) \/ default_tag \in TRUSTED_TAGS
             THEN Emit([date |-> IF date = "" THEN "TBD" ELSE date,
                        title |-> ti,
                        source |-> source,
                        tag |-> IF relevant(ti, de) THEN tag_for(ti, de) ELSE default_tag,
                        desc |-> Prefix(de, DescLen),
                        link |-> link,
                        time |-> "TBD"])
        ELSE Skip :
        ti \in {clean(Get(card, "ti", None))},
        de \in {IF Has(card, "de") THEN clean(card.de) ELSE ""},
        date \in {IF Has(card, "te")
                  THEN html_date(Get(card.te, "datetime", card.te.text))
                  ELSE ""}})

RECURSIVE HtmlLoop(_, _, _, _, _, _)
HtmlLoop(url, source, default_tag, cards, i, acc) ==
    IF i > Len(cards) THEN acc
    ELSE One({HtmlLoop(url, source, default_tag, cards, i + 1,
                       IF r.kind = "emit" THEN Append(acc, r.ev) ELSE acc) :
              r \in {HtmlCard(url, source, default_tag, cards[i])}})

scrape_html(url, source, default_tag, resp) ==
    [raised |-> FALSE,
     out |-> IF resp.status = "ok"
             THEN HtmlLoop(url, source, default_tag, resp.cards, 1, <<>>)
             ELSE <<>>]

MEETUP_ORIGIN == "https://www.meetup.com"

\* The body of the for loop of scrape_meetup for one card; href is the href
\* of the card's first a[href*='/events/'].
MeetupCard(url, name, card) ==
    LET href == Get(card, "href", url)
        link == IF StartsWith(href, "/") THEN MEETUP_ORIGIN \o href ELSE href
        date == IF Has(card, "te")
                THEN Prefix(Get(card.te, "datetime", ""), DateLen)
                ELSE ""
    IN  One({
        IF ~Has(card, "ti") THEN Skip
        ELSE IF ti = "" THEN Skip
        ELSE Emit([date |-> IF date = "" THEN "TBD" ELSE date,
                   title |-> ti,
                   source |-> "Meetup",
                   tag |-> tag_for(ti, name),
                   desc |-> "",
                   link |-> link,
                   time |-> "TBD"]) :
        ti \in {clean(Get(card, "ti", None))}})

RECURSIVE MeetupLoop(_, _, _, _, _)
MeetupLoop(url, name, cards, i, acc) ==
    IF i > Len(cards) THEN acc
    ELSE One({MeetupLoop(url, name, cards, i + 1,
                         IF r.kind = "emit" THEN Append(acc, r.ev) ELSE acc) :
              r \in {MeetupCard(url, name, cards[i])}})

scrape_meetup(url, name, resp) ==
    [raised |-> FALSE,
     out |-> IF resp.status = "ok" THEN MeetupLoop(url, name, resp.cards, 1, <<>>)
             ELSE <<>>]

-----------------------------------------------------------------------------
(* main: the sources, the curated static events, dedup, filter, sort, emit  *)

LOCALIST == <<
    [name |-> "MIT", url |-> "https://calendar.mit.edu/api/2/events"],
    [name |-> "Northeastern", url |-> "https://calendar.northeastern.edu/api/2/events"],
    [name |-> "Harvard SEAS", url |-> "https://events.seas.harvard.edu/api/2/events"] >>

HTML_SOURCES == <<
    [url |-> "https://www.csail.mit.edu/events", source |-> "MIT CSAIL",
     default_tag |-> "ai"],
    [url |-> "https://www.massrobotics.org/events/", source |-> "MassRobotics",
     default_tag |-> "robotics"],
    [url |-> "https://greentownlabs.com/events/", source |-> "Greentown Labs",
     default_tag |-> "manufacturing"] >>

MEETUPS == <<
    [url |-> "https://www.meetup.com/boston-generative-ai-meetup/", name |-> "Boston Gen AI"],
    [url |-> "https://www.meetup.com/boston-air/", name |-> "Boston CV AIR"],
    [url |-> "https://www.meetup.com/the-boston-robotics-meetup-group/", name |-> "Boston Robotics"],
    [url |-> "https://www.meetup.com/startups-and-tech-events-in-boston/", name |-> "Startup Valley"],
    [url |-> "https://www.meetup.com/aittg-boston/", name |-> "Boston AI Devs"] >>

\* The curated static events (the dashes of two titles and two notes are
\* written "-").
STATIC == <<
    [date |-> "2026-04-13",
     title |-> "RAPID + TCT 2026",
     source |-> "Conference",
     tag |-> "manufacturing",
     desc |-> "North America's largest additive manufacturing event. Boston Convention Center. Academic discounts.",
     link |-> "https://www.rapid3devent.com/",
     time |-> "9:00 AM",
     pick |-> TRUE,
     pickNote |-> "Additive manufacturing + aerospace defense. Ask about academic discount"],
    [date |-> "2026-04-14",
     title |-> "AeroDef Manufacturing (co-located w/ RAPID)",
     source |-> "Conference",
     tag |-> "manufacturing",
     desc |-> "Aerospace & defense manufacturing. AI, digital twins, autonomy, supply chain. Boston Convention Center.",
     link |-> "https://www.aerodefevent.com/",
     time |-> "9:00 AM",
     pick |-> TRUE,
     pickNote |-> "Autonomy, AI, digital twins - directly relevant to your career path"],
    [date |-> "2026-04-25",
     title |-> "National Drone Safety Day",
     source |-> "FAA",
     tag |-> "drones",
     desc |-> "FAA-sponsored: fly-ins, STEM demos, pilot training. Events nationwide.",
     link |-> "https://www.thedronegirl.com/2026/02/06/2026-drone-events/",
     time |-> "All Day",
     pick |-> TRUE,
     pickNote |-> "You have your Part 107. Show up, fly, network with commercial operators"],
    [date |-> "2026-05-11",
     title |-> "AUVSI XPONENTIAL 2026",
     source |-> "AUVSI",
     tag |-> "drones",
     desc |-> "World's largest unmanned systems conference. 8,500+ experts. Startup pavilion. Detroit, MI.",
     link |-> "https://xponential.org/",
     time |-> "All Day",
     pick |-> TRUE,
     pickNote |-> "World's largest unmanned systems conf. Worth the Detroit trip"],
    [date |-> "2026-05-22",
     title |-> "DroneArt Show Boston",
     source |-> "Event",
     tag |-> "drones",
     desc |-> "Candlelit concert + synchronized drone show. Ohiri Field, 95 N Harvard St.",
     link |-> "https://thedroneartshow.com/boston/",
     time |-> "Evening"],
    [date |-> "2026-05-27",
     title |-> "Robotics Summit & Expo - Day 1",
     source |-> "MassRobotics",
     tag |-> "robotics",
     desc |-> "6,000+ devs. 50+ sessions, 250+ exhibitors, live demos, RBR50 Awards. Boston Convention Center.",
     link |-> "https://www.roboticssummit.com/",
     time |-> "9:00 AM",
     pick |-> TRUE,
     pickNote |-> "THE MUST-ATTEND. Block these dates NOW. Email for academic discount"],
    [date |-> "2026-05-28",
     title |-> "Robotics Summit & Expo - Day 2",
     source |-> "MassRobotics",
     tag |-> "robotics",
     desc |-> "Women in Robotics Breakfast 8am. Keynotes, career fair, networking. Boston Convention Center.",
     link |-> "https://www.roboticssummit.com/",
     time |-> "8:00 AM",
     pick |-> TRUE,
     pickNote |-> "Career fair + continued expo. Don't skip day 2"],
    [date |-> "2026-06-22",
     title |-> "Automate 2026",
     source |-> "Conference",
     tag |-> "manufacturing",
     desc |-> "Premier robotics + automation + smart manufacturing show. Chicago, IL.",
     link |-> "https://www.automateshow.com/",
     time |-> "All Day",
     pick |-> TRUE,
     pickNote |-> "Premier robotics + automation manufacturing show"],
    [date |-> "2026-09-01",
     title |-> "Commercial UAV Expo",
     source |-> "Conference",
     tag |-> "drones",
     desc |-> "Leading international commercial UAS trade show. Las Vegas.",
     link |-> "https://www.expouav.com/",
     time |-> "All Day"],
    [date |-> "2026-09-22",
     title |-> "BioProcess International",
     source |-> "Conference",
     tag |-> "manufacturing",
     desc |-> "3,200+ scientists. Biopharmaceutical manufacturing. Hynes Convention Center, Boston.",
     link |-> "https://informaconnect.com/bioprocessinternational/",
     time |-> "All Day"],
    [date |-> "2026-10-27",
     title |-> "Tough Tech Summit 2026",
     source |-> "The Engine",
     tag |-> "startup",
     desc |-> "Deep tech founders, investors. Robotics, energy, hard science. Hotel Commonwealth, Boston.",
     link |-> "https://engine.xyz/toughtechsummit",
     time |-> "All Day",
     pick |-> TRUE,
     pickNote |-> "Deep tech founders and investors. The Engine was spun out of MIT"] >>

KeyLen == 50

\* k = (e.get("title", "").lower()[:50], e.get("date", ""))
DedupKey(e) == <<Prefix(Lower(Get(e, "title", "")), KeyLen), Get(e, "date", "")>>

\* k of every event of evs, in order
DedupKeys(evs) == One({List([i \in 1..Len(v) |-> DedupKey(v[i])], Len(v)) : v \in {evs}})

\* A dedup that lets the last event of a key replace the first.
DedupKeepLast(evs) ==
    One({Pick(evs, {i \in 1..Len(evs) : k[i] \notin {k[j] : j \in (i + 1)..Len(evs)}}) :
         k \in {DedupKeys(evs)}})

\* The dedup loop: when it reaches the i-th event, seen holds the keys of the
\* events before it (every event met adds its key, new or not); the event is
\* appended to deduped iff its key is not in seen.
Dedup(evs) ==
    One({Pick(evs, {i \in 1..Len(evs) : k[i] \notin {k[j] : j \in 1..(i - 1)}}) :
         k \in {DedupKeys(evs)}})

\* The comparison turned around: past events are kept, future ones dropped.
KeepFuturePast(e, t) ==
    StrGeq(t, Get(e, "date", "TBD")) \/ Get(e, "date", None) = "TBD"

\* A strict comparison: events dated today are dropped.
KeepFutureStrict(e, t) ==
    StrLess(t, Get(e, "date", "TBD")) \/ Get(e, "date", None) = "TBD"

\* e.get("date", "TBD") >= today or e.get("date") == "TBD"
KeepFuture(e, t) ==
    StrGeq(Get(e, "date", "TBD"), t) \/ Get(e, "date", None) = "TBD"

\* [e for e in evs if ...]
Filter(evs, t) == Pick(evs, {i \in 1..Len(evs) : KeepFuture(evs[i], t)})

\* key=lambda e: e.get("date", "9999")
SortKey(e) == Get(e, "date", "9999")

\* The sort key of every event of evs, in order
SortKeys(evs) == One({List([i \in 1..Len(v) |-> SortKey(v[i])], Len(v)) : v \in {evs}})

\* The place of every event of evs in sorted(evs, key=...): sorted compares
\* keys with < only and is stable, so evs[j] comes before evs[i] iff its key
\* is smaller, or neither key is smaller and j < i.
Places(evs) ==
    One({List([i \in 1..Len(k) |->
                  1 + Cardinality({j \in 1..Len(k) :
                                      \/ StrLess(k[j], k[i])
                                      \/ j < i /\ ~StrLess(k[i], k[j])})], Len(k)) :
         k \in {SortKeys(evs)}})

\* The events of evs, each one at its place
Arrange(evs, places) ==
    One({List([p \in 1..Len(at) |-> evs[CHOOSE i \in 1..Len(at) : at[i] = p]],
              Len(at)) : at \in {places}})

\* The sort left out.
Unsorted(evs) == evs

\* sorted(evs, key=...)
Sorted(evs) == One({Arrange(v, Places(v)) : v \in {evs}})

\* The output document: event_count and events (scraped_at, recurring and
\* source_links are copied into it unchanged and are not modelled).
Snapshot(fut) == [event_count |-> Len(fut), events |-> fut]

-----------------------------------------------------------------------------
(* Inputs: what the sources answer                                         *)

Err == [status |-> "error"]
OkItems(items) == [status |-> "ok", events |-> items]
OkCards(cards) == [status |-> "ok", cards |-> cards]

\* Localist items
L_seminar == [title |-> "Robotics Seminar",
              description_text |-> "<p>Humanoid  robots</p>",
              first_date |-> "2026-05-01T17:30:00Z",
              localist_url |-> "https://calendar.mit.edu/event/robotics_seminar",
              location_name |-> "32-123"]
L_SEMINAR == [event |-> [title |-> "ROBOTICS SEMINAR",
                         description |-> "Soft robots",
                         date |-> "2026-05-01",
                         url |-> "https://calendar.mit.edu/event/seminar_2"]]
L_hockey == [title |-> "Intramural Hockey Night", first_date |-> "2026-05-02",
             url |-> "https://calendar.mit.edu/event/hockey"]
L_past == [title |-> "Drone Demo Day", first_date |-> "2025-12-31",
           url |-> "https://calendar.mit.edu/event/drone_demo"]
L_newyear == [title |-> "Startup Mixer", first_date |-> "2026-01-01 18:00",
              url |-> "https://calendar.mit.edu/event/mixer"]
L_rawdate == [title |-> "AI Hackathon", first_date |-> "Next Tuesday 6pm"]
L_nodate == [title |-> "Venture Pitch Night",
             url |-> "https://calendar.mit.edu/event/pitch"]
L_nulltitle == [title |-> None, first_date |-> "2026-05-03"]

\* Cards of an HTML page
H_summit == [ti |-> " Robotics Summit &  Expo - Day 1 ",
             de |-> "<b>6,000+</b> devs",
             href |-> "/events/robotics-summit",
             te |-> [datetime |-> "2026-05-27T09:00:00-04:00", text |-> "May 27"]]
H_lunch == [ti |-> "Lunch and Learn", href |-> "register/now",
            te |-> [text |-> "Sept 3, 2026"]]
H_yoga == [ti |-> "Yoga for Founders", href |-> "",
           te |-> [text |-> "June 1, 2026"]]
H_ai == [ti |-> "Deep Learning Seminar", de |-> "LLM agents",
         href |-> "//cdn.example.org/seminar", te |-> [text |-> " Sep 3, 2026 "]]
H_maker == [ti |-> "Maker Night", te |-> [datetime |-> "2026-5-7", text |-> ""]]
H_short == [ti |-> "Demo", href |-> "https://example.org/demo"]
H_notitle == [de |-> "No heading here"]

\* Cards of a Meetup group page
Title50 == "Boston Robotics Build Night: Humanoid Arm Workshop"
M_seminar == [ti |-> "Robotics Seminar",
              href |-> "https://www.meetup.com/boston-air/events/301/",
              te |-> [datetime |-> "2026-05-01T18:00:00-04:00"]]
M_genai == [ti |-> "Generative AI Night",
            href |-> "/boston-generative-ai-meetup/events/302/",
            te |-> [datetime |-> "2026-01-01T18:00:00-05:00"]]
M_thu == [ti |-> "Founder Social", te |-> [datetime |-> "Thu, Jun 11, 2026"]]
M_long1 == [ti |-> Title50 \o " (part 1)", href |-> "/boston-air/events/303/"]
M_long2 == [ti |-> Title50 \o " (part 2)", href |-> "/boston-air/events/304/"]
M_blank == [ti |-> "  ", href |-> "/boston-air/events/305/"]

\* Sequences of at most n elements of S
SeqsUpTo(S, n) == UNION {[1..k -> S] : k \in 0..n}

-----------------------------------------------------------------------------
(* Spec: one run of main                                                    *)

MaxScraped == 2

MainLocalistResponses ==
    {Err, OkItems(<<L_seminar, L_hockey, L_SEMINAR>>),
     OkItems(<<L_past>>), OkItems(<<L_newyear>>), OkItems(<<L_nulltitle, L_past>>),
     OkItems(<<L_rawdate, L_nodate>>)}

MainHtmlResponses ==
    {Err, OkCards(<<H_summit>>), OkCards(<<H_short, H_lunch>>)}

MainMeetupResponses ==
    {Err, OkCards(<<M_seminar>>), OkCards(<<M_long1, M_long2>>),
     OkCards(<<M_thu>>), OkCards(<<M_blank, M_genai>>)}

Todays == {"2026-01-01", "2026-04-14", "2027-01-01"}

At(phase, i) == [phase |-> phase, i |-> i]

NAdapters == Len(LOCALIST) + Len(HTML_SOURCES) + Len(MEETUPS)

AllAdapters ==
    [i \in 1..Len(LOCALIST) |-> LOCALIST[i].name]
        \o [i \in 1..Len(HTML_SOURCES) |-> HTML_SOURCES[i].source]
        \o [i \in 1..Len(MEETUPS) |-> MEETUPS[i].name]

InitMainIdle ==
    /\ pc = At("idle", 0)
    /\ all_events = <<>>
    /\ deduped = <<>>
    /\ future = <<>>
    /\ today = ""
    /\ output = NoOutput
    /\ nfailed = 0
    /\ invoked = <<>>

InitCallIdle ==
    /\ call = [adapter |-> "none"]
    /\ out = <<>>

InitClassIdle ==
    /\ cpc = "idle"
    /\ title = ""
    /\ desc = ""
    /\ rel = FALSE
    /\ tag = "talk"

Init ==
    /\ pc = At("localist", 1)
    /\ all_events = <<>>
    /\ deduped = <<>>
    /\ future = <<>>
    /\ today = ""
    /\ output = NoOutput
    /\ nfailed = 0
    /\ invoked = <<>>
    /\ InitCallIdle
    /\ InitClassIdle

\* main after an adapter call returned r (or raised): all_events.extend(r.out)
Extend(r, label, failed, next) ==
    /\ Len(all_events) + Len(r.out) <= MaxScraped
    /\ invoked' = Append(invoked, label)
    /\ nfailed' = nfailed + (IF failed THEN 1 ELSE 0)
    /\ IF r.raised
       THEN pc' = At("crashed", 0) /\ all_events' = all_events
       ELSE pc' = next /\ all_events' = all_events \o r.out
    /\ UNCHANGED <<deduped, future, today, output>>
    /\ UNCHANGED <<callVars, classVars>>

\* [1/4] for name, url in LOCALIST: all_events.extend(scrape_localist(name, url))
CallLocalist ==
    /\ pc.phase = "localist"
    /\ \E resp \in MainLocalistResponses :
          LET src == LOCALIST[pc.i]
          IN  \E r \in {scrape_localist(src.name, src.url, resp)} :
              Extend(r, src.name, resp.status # "ok",
                     IF pc.i < Len(LOCALIST) THEN At("localist", pc.i + 1)
                     ELSE At("html", 1))

\* [2/4] the three scrape_html calls
CallHtml ==
    /\ pc.phase = "html"
    /\ \E resp \in MainHtmlResponses :
          LET src == HTML_SOURCES[pc.i]
          IN  \E r \in {scrape_html(src.url, src.source, src.default_tag, resp)} :
              Extend(r, src.source, resp.status # "ok",
                     IF pc.i < Len(HTML_SOURCES) THEN At("html", pc.i + 1)
                     ELSE At("meetup", 1))

\* [3/4] for url, name in [...]: all_events.extend(scrape_meetup(url, name))
CallMeetup ==
    /\ pc.phase = "meetup"
    /\ \E resp \in MainMeetupResponses :
          LET src == MEETUPS[pc.i]
          IN  \E r \in {scrape_meetup(src.url, src.name, resp)} :
              Extend(r, src.name, resp.status # "ok",
                     IF pc.i < Len(MEETUPS) THEN At("meetup", pc.i + 1)
                     ELSE At("static", 0))

\* [4/4] all_events.extend(STATIC)
AppendStatic ==
    /\ pc.phase = "static"
    /\ all_events' = all_events \o STATIC
    /\ pc' = At("dedup", 0)
    /\ UNCHANGED <<deduped, future, today, output, nfailed, invoked>>
    /\ UNCHANGED <<callVars, classVars>>

\* seen, deduped = set(), []; for e in all_events: ...
DedupPass ==
    /\ pc.phase = "dedup"
    /\ deduped' = Dedup(all_events)
    /\ pc' = At("filter", 0)
    /\ UNCHANGED <<all_events, future, today, output, nfailed, invoked>>
    /\ UNCHANGED <<callVars, classVars>>

\* today = datetime.now().strftime("%Y-%m-%d"); future = sorted([...], key=...)
FilterSort ==
    /\ pc.phase = "filter"
    /\ \E t \in Todays :
          /\ today' = t
          /\ future' = Sorted(Filter(deduped, t))
    /\ pc' = At("emit", 0)
    /\ UNCHANGED <<all_events, deduped, output, nfailed, invoked>>
    /\ UNCHANGED <<callVars, classVars>>

\* An event_count taken from the raw collection instead of the emitted list.
EmitRawCount ==
    /\ pc.phase = "emit"
    /\ output' = [Snapshot(future) EXCEPT !.event_count = Len(all_events)]
    /\ \E ok \in BOOLEAN : pc' = At(IF ok THEN "done" ELSE "emit_failed", 0)
    /\ UNCHANGED <<all_events, deduped, future, today, nfailed, invoked>>
    /\ UNCHANGED <<callVars, classVars>>

\* output = dict(...); out.write_text(json.dumps(output, ...)): the write
\* succeeds or raises.
EmitSnapshot ==
    /\ pc.phase = "emit"
    /\ output' = Snapshot(future)
    /\ \E ok \in BOOLEAN : pc' = At(IF ok THEN "done" ELSE "emit_failed", 0)
    /\ UNCHANGED <<all_events, deduped, future, today, nfailed, invoked>>
    /\ UNCHANGED <<callVars, classVars>>

Next ==
    \/ CallLocalist
    \/ CallHtml
    \/ CallMeetup
    \/ AppendStatic
    \/ DedupPass
    \/ FilterSort
    \/ EmitSnapshot

Spec == Init /\ [][Next]_vars

\* The run is one sequential thread and every fetch has a timeout, so a step
\* that can be taken is taken.
FairSpec == Spec /\ WF_vars(Next)

-----------------------------------------------------------------------------
(* SpecAdapters: one call of one adapter on any response of MaxItems items  *)

MaxItems == 2

LocalistItems == {L_seminar, L_SEMINAR, L_hockey, L_past, L_rawdate, L_nodate,
                  L_nulltitle}
HtmlCards == {H_summit, H_lunch, H_yoga, H_ai, H_maker, H_short, H_notitle}
MeetupCards == {M_seminar, M_genai, M_thu, M_long1, M_blank}

InitAdapters ==
    /\ InitMainIdle
    /\ InitCallIdle
    /\ InitClassIdle

RunLocalist ==
    /\ call.adapter = "none"
    /\ \E i \in 1..Len(LOCALIST) :
       \E resp \in {Err} \cup {OkItems(x) : x \in SeqsUpTo(LocalistItems, MaxItems)} :
          /\ call' = [adapter |-> "localist", name |-> LOCALIST[i].name,
                      url |-> LOCALIST[i].url, resp |-> resp]
          /\ out' = scrape_localist(LOCALIST[i].name, LOCALIST[i].url, resp).out
    /\ UNCHANGED <<mainVars, classVars>>

RunHtml ==
    /\ call.adapter = "none"
    /\ \E i \in 1..Len(HTML_SOURCES) :
       \E resp \in {Err} \cup {OkCards(x) : x \in SeqsUpTo(HtmlCards, MaxItems)} :
          LET src == HTML_SOURCES[i]
          IN  /\ call' = [adapter |-> "html", url |-> src.url, source |-> src.source,
                          default_tag |-> src.default_tag, resp |-> resp]
              /\ out' = scrape_html(src.url, src.source, src.default_tag, resp).out
    /\ UNCHANGED <<mainVars, classVars>>

RunMeetup ==
    /\ call.adapter = "none"
    /\ \E i \in 1..Len(MEETUPS) :
       \E resp \in {Err} \cup {OkCards(x) : x \in SeqsUpTo(MeetupCards, MaxItems)} :
          /\ call' = [adapter |-> "meetup", url |-> MEETUPS[i].url,
                      name |-> MEETUPS[i].name, resp |-> resp]
          /\ out' = scrape_meetup(MEETUPS[i].url, MEETUPS[i].name, resp).out
    /\ UNCHANGED <<mainVars, classVars>>

NextAdapters ==
    \/ RunLocalist
    \/ RunHtml
    \/ RunMeetup

SpecAdapters == InitAdapters /\ [][NextAdapters]_vars

-----------------------------------------------------------------------------
(* SpecClassifier: relevant and tag_for on titles and descriptions made of  *)
(* up to MaxWords words                                                     *)

MaxWords == 2

Words == {"Robot", "AI", "Drone", "Startup", "Mixer", "Mass", "Yoga",
          "Lunch", "HOCKEY", "Device"}

RECURSIVE Phrases(_)
Phrases(n) ==
    IF n = 0 THEN {""}
    ELSE LET shorter == Phrases(n - 1)
         IN  shorter \cup {IF p = "" THEN w ELSE p \o " " \o w :
                              p \in shorter, w \in Words}

ClassTitles == Phrases(MaxWords)
ClassDescs == {"", "Weekly seminar", "intramural league", "social hour"}

InitClassifier ==
    /\ InitMainIdle
    /\ InitCallIdle
    /\ cpc = "input"
    /\ title \in ClassTitles
    /\ desc \in ClassDescs
    /\ rel = FALSE
    /\ tag = "talk"

Classify ==
    /\ cpc = "input"
    /\ cpc' = "classified"
    /\ rel' = relevant(title, desc)
    /\ tag' = tag_for(title, desc)
    /\ UNCHANGED <<title, desc>>
    /\ UNCHANGED <<mainVars, callVars>>

NextClassifier == Classify

SpecClassifier == InitClassifier /\ [][NextClassifier]_vars

-----------------------------------------------------------------------------
(* Claims                                                                   *)

WriteAttempted == pc.phase \in {"done", "emit_failed"}

CharAt(s, i) == SubSeq(s, i, i)

\* a <= b in lexicographic (code point) order: a is a prefix of b, or the
\* first position where they differ holds the smaller character in a.
LexLeq(a, b) ==
    \/ /\ Len(a) <= Len(b)
       /\ SubSeq(b, 1, Len(a)) = a
    \/ \E i \in 1..Len(a) :
          /\ i <= Len(b)
          /\ SubSeq(a, 1, i - 1) = SubSeq(b, 1, i - 1)
          /\ Ord[CharAt(a, i)] < Ord[CharAt(b, i)]

\* YYYY-MM-DD: digits and dashes in place, a month 01..12, a day 01..31
IsCanonicalDay(s) ==
    /\ Len(s) = 10
    /\ \A i \in {1, 2, 3, 4, 6, 7, 9, 10} : CharAt(s, i) \in DigitSet
    /\ CharAt(s, 5) = "-" /\ CharAt(s, 8) = "-"
    /\ ToNat(SubSeq(s, 6, 7)) \in 1..12
    /\ ToNat(SubSeq(s, 9, 10)) \in 1..31

\* scheme://host...
IsAbsoluteUrl(s) ==
    \E scheme \in {"http://", "https://"} :
        /\ Len(s) > Len(scheme)
        /\ SubSeq(s, 1, Len(scheme)) = scheme
        /\ CharAt(s, Len(scheme) + 1) # "/"

\* The dedup key of the claims: lower-cased title cut to 50 characters, date.
ClaimKey(e) ==
    <<SubSeq(Lower(e.title), 1, IF Len(e.title) < 50 THEN Len(e.title) ELSE 50), e.date>>

ClaimKeys(evs) == List([i \in 1..Len(evs) |-> ClaimKey(evs[i])], Len(evs))

Retained(e) == e.date = "TBD" \/ LexLeq(today, e.date)

\* C1: whatever subset of the fetches fails, the run never aborts, every
\* adapter is invoked and the write of the output document is eventually
\* attempted; when every source failed the snapshot's events are curated
\* static events only.
C1_RunCompletes ==
    /\ [](pc.phase # "crashed")
    /\ <>(/\ WriteAttempted
          /\ invoked = AllAdapters
          /\ nfailed = NAdapters => Range(output.events) \subseteq Range(STATIC))

\* Every fetch failed and the snapshot was written with static events in it.
C1_Witness ==
    /\ pc.phase = "done"
    /\ nfailed = NAdapters
    /\ invoked = AllAdapters
    /\ output.events # <<>>
    /\ Range(output.events) \subseteq Range(STATIC)

\* C2: deduped holds exactly one event per dedup key, the first of that key
\* in the order of all_events, and the survivors keep their input order.
C2_DedupFirstWins ==
    pc.phase = "filter" =>
        \E key \in {ClaimKeys(all_events)}, dkey \in {ClaimKeys(deduped)} :
            LET n == Len(all_events)
                firsts == {i \in 1..n : \A j \in 1..(i - 1) : key[j] # key[i]}
            IN  /\ Len(deduped) = Cardinality(firsts)
                /\ \A k \in 1..Len(deduped) : deduped[k] = all_events[Kth(firsts, k)]
                /\ \A a, b \in 1..Len(deduped) : a # b => dkey[a] # dkey[b]

\* Two scraped events whose titles differ only after the 50th character were
\* collapsed onto the earlier one.
C2_Witness ==
    /\ pc.phase = "filter"
    /\ Len(deduped) < Len(all_events)
    /\ \E key \in {ClaimKeys(all_events)} :
           \E i, j \in 1..(Len(all_events) - Len(STATIC)) :
              /\ i < j
              /\ key[i] = key[j]
              /\ all_events[i].title # all_events[j].title
              /\ all_events[i] \in Range(deduped)
              /\ all_events[j] \notin Range(deduped)
              /\ Len(all_events[i].title) > 50

\* C3: a deduplicated event is in the filtered list iff its date is "TBD" or
\* its date string is lexicographically >= today.
C3_TemporalFilter ==
    pc.phase = "emit" =>
        /\ \A i \in 1..Len(deduped) :
              (deduped[i] \in Range(future)) <=> Retained(deduped[i])
        /\ Range(future) \subseteq Range(deduped)
        /\ Len(future) = Cardinality({i \in 1..Len(deduped) : Retained(deduped[i])})

\* An event dated before today was dropped, one dated today and one dated
\* "TBD" were kept.
C3_Witness ==
    /\ pc.phase = "emit"
    /\ \E e \in Range(deduped) :
          IsCanonicalDay(e.date) /\ e.date # today /\ LexLeq(e.date, today)
              /\ e \notin Range(future)
    /\ \E e \in Range(deduped) : e.date = today /\ e \in Range(future)
    /\ \E e \in Range(deduped) : e.date = "TBD" /\ e \in Range(future)

\* C4: the snapshot's events are in ascending order of date string and no
\* "TBD" event precedes an event with a resolved (YYYY-MM-DD) date.
C4_SortedTbdLast ==
    WriteAttempted =>
        \A i, j \in 1..Len(output.events) :
            i < j =>
                /\ LexLeq(output.events[i].date, output.events[j].date)
                /\ ~(output.events[i].date = "TBD" /\ IsCanonicalDay(output.events[j].date))

\* The sort moved a "TBD" event, scraped before the static events, behind them.
C4_Witness ==
    /\ WriteAttempted
    /\ output.events # Filter(deduped, today)
    /\ \E i, j \in 1..Len(output.events) :
          /\ i < j
          /\ IsCanonicalDay(output.events[i].date)
          /\ output.events[j].date = "TBD"

StaticAt(k) == Len(all_events) - Len(STATIC) + k

C6_RelevantVeto ==
    cpc = "classified" =>
        LET t == Lower(title \o " " \o desc)
            excluded == \E k \in Range(EXCLUDE_KW) : Contains(t, k)
            included == \E k \in Range(INCLUDE_KW) : Contains(t, k)
        IN  /\ excluded => rel = FALSE
            /\ ~excluded => (rel <=> included)

\* An excluded text that also carries an inclusion keyword has been classified.
C6_Witness ==
    /\ cpc = "classified"
    /\ Contains(Lower(title), "yoga")
    /\ Contains(Lower(title), "robot")
    /\ rel = FALSE

MatchingRules(t) ==
    {i \in 1..Len(TAG_RULES) : \E k \in Range(TAG_RULES[i].kws) : Contains(t, k)}

\* C7: tag_for returns the tag of the first rule of TAG_RULES with a keyword
\* in the lower-cased title + " " + description, "talk" when no rule matches.
C7_FirstRuleWins ==
    cpc = "classified" =>
        LET m == MatchingRules(Lower(title \o " " \o desc))
        IN  /\ m = {} => tag = "talk"
            /\ m # {} => tag = TAG_RULES[Min(m)].tag

\* A text matching a later rule at an earlier position (drone before robot)
\* got the tag of the earlier rule.
C7_Witness ==
    /\ cpc = "classified"
    /\ title = "Drone Robot"
    /\ Cardinality(MatchingRules(Lower(title \o " " \o desc))) >= 2
    /\ tag = "robotics"

\* C8: every event an adapter returns has a date that is a canonical
\* YYYY-MM-DD day string or "TBD".
C8_DatesCanonical ==
    \A i \in 1..Len(out) : out[i].date = "TBD" \/ IsCanonicalDay(out[i].date)

\* C9: every event an adapter returns has an absolute URL as its link.
C9_LinksAbsolute ==
    \A i \in 1..Len(out) : IsAbsoluteUrl(out[i].link)

\* C10: at emission the snapshot's event_count is the length of its events.
C10_CountMatches ==
    WriteAttempted => output.event_count = Len(output.events)

\* A snapshot was emitted whose events are fewer than the raw collection.
C10_Witness ==
    /\ WriteAttempted
    /\ output.event_count > 0
    /\ Len(output.events) < Len(all_events)

\* An item of a Localist response that is relevant and dated: it has a
\* title, its title and cleaned description pass relevant(), and it has a
\* non-empty first_date or date.
RelevantDated(item) ==
    LET ev == Get(item, "event", item)
        ti == Get(ev, "title", "")
        ds == Get(ev, "first_date", Get(ev, "date", ""))
    IN  /\ ti # None
        /\ ds # None /\ ds # ""
        /\ relevant(ti, clean(Get(ev, "description_text", Get(ev, "description", ""))))

\* C11: scrape_localist returns an event for every relevant and dated item
\* of the response, whatever error another item of the same response raises.
C11_ItemErrorSkipsOne ==
    (call.adapter = "localist" /\ call.resp.status = "ok") =>
        \A i \in 1..Len(call.resp.events) :
            RelevantDated(call.resp.events[i]) =>
                \E k \in 1..Len(out) :
                    out[k].title = Get(Get(call.resp.events[i], "event",
                                           call.resp.events[i]), "title", "")

\* The exclusion check on an emitted event's title and description
Excluded(e) == \E k \in Range(EXCLUDE_KW) : Contains(Lower(e.title \o " " \o e.desc), k)

\* C12: no event scrape_html returns has an exclusion keyword in its title
\* or description, whatever the default tag of the call.
C12_HtmlExcludedSkipped ==
    call.adapter = "html" => \A k \in 1..Len(out) : ~Excluded(out[k])

\* C13: the tag of every event scrape_html returns is tag_for(title, desc)
\* when that is not "talk", and the call's default tag when it is "talk".
C13_HtmlTagRule ==
    call.adapter = "html" =>
        \A k \in 1..Len(out) :
            \E t \in {tag_for(out[k].title, out[k].desc)} :
                out[k].tag = IF t # "talk" THEN t ELSE call.default_tag

=============================================================================
